---------------------------- MODULE Spec2Model ----------------------------
(***************************************************************************)
(* A model of homeassistant/components/pioneer/media_player.py: the        *)
(* PioneerDevice protocol client (poll cycle, fire-and-forget commands,    *)
(* stepped volume set) together with the receiver it talks to.             *)
(*                                                                         *)
(* Python strings are sequences of one-character strings, so that          *)
(* startswith, slicing, zfill and int() are computed as the code computes  *)
(* them.  A cached volume v stands for the float v / (MAX_VOLUME * Grain). *)
(***************************************************************************)
EXTENDS Integers, Sequences, FiniteSets, TLC

\* ------------------------------------------------------------------ bounds
\* public operations invoked after setup_platform in one behaviour
MaxOps == 2
\* requested volumes are multiples of 1 / (MAX_VOLUME * Grain)
Grain == 2
\* lines the transport has ready for one telnet_request call
MaxLines == 4

\* ------------------------------------------------------- program constants
MAX_VOLUME == 185
MAX_SOURCE_NUMBERS == 60
MAX_TRIES == 5
\* range(3) in telnet_request
READ_TRIES == 3

\* ----------------------------------------------------------------- values
\* Python's None where a string is expected: a one-element tuple whose element
\* is not a character, hence different from every string of the model.
None == <<"NoneType">>
\* Python's None where a number is expected.
NoneNum == -1

\* ---------------------------------------------------------------- strings
DigitChars == <<"0", "1", "2", "3", "4", "5", "6", "7", "8", "9">>

Digit(d) == DigitChars[d + 1]

CharVal(c) == CHOOSE d \in 0..9 : DigitChars[d + 1] = c

\* str(i).zfill(2)
Zfill2(i) == IF i < 10 THEN <<"0", Digit(i)>> ELSE <<Digit(i \div 10), Digit(i % 10)>>

\* f"{k:03}"
Fmt03(k) == <<Digit(k \div 100), Digit((k \div 10) % 10), Digit(k % 10)>>

RECURSIVE ParseInt(_)
\* int(s) for a string of decimal digits
ParseInt(s) ==
    IF Len(s) = 0 THEN 0
    ELSE 10 * ParseInt(SubSeq(s, 1, Len(s) - 1)) + CharVal(s[Len(s)])

\* s.startswith(p)
StartsWith(s, p) == Len(s) >= Len(p) /\ SubSeq(s, 1, Len(p)) = p

\* s[n:]
From(s, n) == SubSeq(s, n + 1, Len(s))

Whitespace == {" ", "\t", "\r", "\n"}

RECURSIVE Strip(_)
\* s.strip()
Strip(s) ==
    IF Len(s) = 0 THEN s
    ELSE IF s[1] \in Whitespace THEN Strip(Tail(s))
    ELSE IF s[Len(s)] \in Whitespace THEN Strip(SubSeq(s, 1, Len(s) - 1))
    ELSE s

CRLF == <<"\r", "\n">>

\* ----------------------------------------------------------- wire protocol
PWR == <<"P", "W", "R">>
VOL == <<"V", "O", "L">>
MUT == <<"M", "U", "T">>
RGB == <<"R", "G", "B">>
FN == <<"F", "N">>
VU == <<"V", "U">>
VD == <<"V", "D">>
\* the receiver's reply to a command it does not understand; no query awaits it
E04 == <<"E", "0", "4">>

\* ------------------------------------------------------------------- state
VARIABLES
    \* PioneerDevice fields
    pwstate, volume, muted, selected_source,
    source_name_to_number, source_number_to_name,
    fakevolumeset, vol_inc_steps,
    \* the running operation: its position and its locals
    pc, tries, telnet, arg, cmd, target_steps, ready,
    \* the receiver
    devVol, devPower, devMute, devActive, devStep, devSources, devQuiet, devBroadcast,
    \* the connection to it: the faults it may show
    netFaults,
    \* what the running / last operation did
    op, calls, opened, closed, connected, ret, poll, steps, answered, wire,
    \* the connect attempts of the running / last operation, and the cached
    \* volume it found when it was entered
    attempts, volume0,
    \* a second PioneerDevice, on which no operation runs
    peer,
    \* one telnet_request call on its own
    rq

deviceVars == <<pwstate, volume, muted, selected_source, source_name_to_number,
                source_number_to_name, fakevolumeset, vol_inc_steps>>
opVars == <<pc, tries, telnet, arg, cmd, target_steps, ready>>
\* what no action changes
fixedVars == <<devStep, devSources, devQuiet, devBroadcast, netFaults, peer, rq>>
envVars == <<devVol, devPower, devMute, devActive, fixedVars>>
histVars == <<op, calls, opened, closed, connected, ret, poll, steps, answered, wire,
              attempts, volume0>>
mainVars == <<deviceVars, opVars, envVars, histVars>>
vars == mainVars

\* ---------------------------------------------------------- telnet_request
\* The for loop of telnet_request: read i of READ_TRIES from lines, the lines
\* the transport delivers in order (a read that times out delivers "").
RECURSIVE ReadLoop(_, _, _, _)
ReadLoop(lines, expected_prefix, i, limit) ==
    IF i > limit THEN [result |-> None, reads |-> limit]
    ELSE LET raw == IF i <= Len(lines) THEN lines[i] ELSE <<>>
             result == Strip(raw)
         IN IF StartsWith(result, expected_prefix)
            THEN [result |-> result, reads |-> i]
            ELSE ReadLoop(lines, expected_prefix, i + 1, limit)

\* telnet_request with one read too many
TelnetRequestFourReads(lines, expected_prefix, writeOk) ==
    IF ~writeOk THEN [result |-> None, reads |-> 0, writes |-> 1]
    ELSE [writes |-> 1] @@ ReadLoop(lines, expected_prefix, 1, READ_TRIES + 1)

\* a write that raises socket.timeout is the only error telnet_request absorbs
TelnetRequest(lines, expected_prefix, writeOk) ==
    IF ~writeOk THEN [result |-> None, reads |-> 0, writes |-> 1]
    ELSE [writes |-> 1] @@ ReadLoop(lines, expected_prefix, 1, READ_TRIES)

\* the result alone, as the callers use it
Request(lines, expected_prefix) == TelnetRequest(lines, expected_prefix, TRUE).result


\* ------------------------------------------------------------ Python dicts
\* d.get(k)
Get(d, k) == IF k \in DOMAIN d THEN d[k] ELSE None

\* d[k] = v
Put(d, k, v) == (k :> v) @@ d

EmptyDict == <<>>

RECURSIVE DictOf(_)
\* the dict whose items, in insertion order, are pairs
DictOf(pairs) ==
    IF Len(pairs) = 0 THEN EmptyDict
    ELSE Put(DictOf(SubSeq(pairs, 1, Len(pairs) - 1)),
             pairs[Len(pairs)][1], pairs[Len(pairs)][2])

RECURSIVE InverseOf(_)
\* {v: k for k, v in sources.items()}
InverseOf(pairs) ==
    IF Len(pairs) = 0 THEN EmptyDict
    ELSE Put(InverseOf(SubSeq(pairs, 1, Len(pairs) - 1)),
             pairs[Len(pairs)][2], pairs[Len(pairs)][1])

\* ------------------------------------------------------------ the receiver
CD == <<"C", "D">>
TV == <<"T", "V">>
VL == <<"V", "L">>
PO == <<"P", "O">>
PF == <<"P", "F">>
MO == <<"M", "O">>
MF == <<"M", "F">>

\* the receiver's source tables, slot -> name; a table never changes
DevTables == { EmptyDict, (4 :> CD) @@ (5 :> TV), (4 :> CD) @@ (5 :> CD) }

\* the sources option of the configuration, as the items of the dict
ConfigSources == { <<>>, <<<<CD, Zfill2(4)>>>>, <<<<CD, Zfill2(4)>>, <<TV, Zfill2(5)>>>> }

DevVols0 == {92, MAX_VOLUME}
DevSteps == {1, 2}

\* requested volume levels, in units of 1 / (MAX_VOLUME * Grain)
Targets == {0, 92 * Grain + 1, 183 * Grain}

PowerCodes == {PWR \o <<"0">>, PWR \o <<"2">>}
MuteCodes == {MUT \o <<"0">>, MUT \o <<"1">>}
ActiveCodes == {Zfill2(4), Zfill2(5)}
Prefixes == {PWR, VOL, MUT, RGB, FN}

VolLine(k) == VOL \o Fmt03(k)
RgbLine(i, name) == RGB \o Zfill2(i) \o <<"0">> \o name
FnLine(code) == FN \o code

\* What the transport may deliver to the reads that follow a query whose reply
\* is the line r: the reply, alone or behind a line the receiver sent on its
\* own; and, for the replies this receiver may fail to send in time (devQuiet),
\* nothing, or the reply behind three such lines.
Delivery(r) ==
    { <<r \o CRLF>>, <<E04 \o CRLF, r \o CRLF>> }
    \cup IF \E p \in devQuiet : StartsWith(r, p)
         THEN { <<>>, <<E04 \o CRLF, E04 \o CRLF, E04 \o CRLF, r \o CRLF>> }
         ELSE {}

\* What the transport may deliver after a volume command or query whose reply
\* is VOL<after>, sent while the receiver's volume was before: as Delivery, and,
\* from a receiver that announces its volume on its own (devBroadcast), the
\* reply behind such an announcement.
VolDelivery(before, after) ==
    Delivery(VolLine(after))
    \cup IF devBroadcast
         THEN { <<VolLine(before) \o CRLF, VolLine(after) \o CRLF>> }
         ELSE {}

Up(v, s) == IF v + s > MAX_VOLUME THEN MAX_VOLUME ELSE v + s
Down(v, s) == IF v - s < 0 THEN 0 ELSE v - s

IsDigits(s) == \A i \in 1..Len(s) : \E d \in 0..9 : s[i] = DigitChars[d + 1]

\* the receiver's volume after it got command c
DevVolAfter(v, s, c) ==
    IF c = VU THEN Up(v, s)
    ELSE IF c = VD THEN Down(v, s)
    ELSE IF Len(c) = 5 /\ From(c, 3) = VL /\ IsDigits(SubSeq(c, 1, 3))
            /\ ParseInt(SubSeq(c, 1, 3)) <= MAX_VOLUME
         THEN ParseInt(SubSeq(c, 1, 3))
    ELSE v

\* the receiver's power code after it got command c
DevPowerAfter(p, c) ==
    IF c = PO THEN PWR \o <<"0">> ELSE IF c = PF THEN PWR \o <<"2">> ELSE p

\* the receiver's mute code after it got command c
DevMuteAfter(m, c) ==
    IF c = MO THEN MUT \o <<"0">> ELSE IF c = MF THEN MUT \o <<"1">> ELSE m

\* the receiver's active source after it got command c
DevActiveAfter(a, c) ==
    IF Len(c) = 4 /\ From(c, 2) = FN /\ IsDigits(SubSeq(c, 1, 2)) THEN SubSeq(c, 1, 2) ELSE a

\* the receiver gets command c
Receive(c) ==
    /\ devVol' = DevVolAfter(devVol, devStep, c)
    /\ devPower' = DevPowerAfter(devPower, c)
    /\ devMute' = DevMuteAfter(devMute, c)
    /\ devActive' = DevActiveAfter(devActive, c)
    /\ UNCHANGED fixedVars

\* Telnet(host, port, timeout) returns a connection (TRUE) or raises OSError
ConnectOutcomes == IF "refuse" \in netFaults THEN BOOLEAN ELSE {TRUE}

\* telnet.write succeeds (TRUE) or raises socket.timeout, in telnet_request
WriteOutcomes == IF VOL \in devQuiet THEN BOOLEAN ELSE {TRUE}

\* how one turn of telnet_command ends: connect refused, OSError from write,
\* OSError from read_very_eager after the write, or closed
CommandOutcomes ==
    {"done"}
    \cup (IF "refuse" \in netFaults THEN {"refused"} ELSE {})
    \cup (IF "break" \in netFaults THEN {"write_error", "drain_error"} ELSE {})

Abs(x) == IF x < 0 THEN -x ELSE x

\* int(self._volume * MAX_VOLUME)
VolCode(v) == v \div Grain

\* ------------------------------------------------------------------- Init
\* what the last poll cycle saw: the result of each query, the power state
\* before it, the number of ?RGB queries sent, what the slots that answered
\* returned (disc), whether discovery ran in it (did), and whether a discovery
\* of a poll before it ran (had) and got a reply (found)
NoPoll ==
    [ran |-> FALSE, old |-> None, pw |-> None, vs |-> None, mv |-> None, fs |-> None,
     rgb |-> 0, had |-> FALSE, found |-> FALSE, did |-> FALSE, disc |-> EmptyDict]

\* PioneerDevice(name, host, port, timeout, sources, fakevolumeset), sources
\* given by its items
InitDevice(src) ==
    /\ pwstate = PWR \o <<"1">>
    /\ volume = 0
    /\ muted = "False"
    /\ selected_source = <<>>
    /\ source_name_to_number = DictOf(src)
    /\ source_number_to_name = InverseOf(src)
    /\ vol_inc_steps = NoneNum

\* a second PioneerDevice(name, host, port, timeout, sources, fakevolumeset),
\* given the very dict the first was given (same) or a dict of its own with
\* the same items
InitPeer(src, same) ==
    peer = [same |-> same, source_name_to_number |-> DictOf(src),
            source_number_to_name |-> InverseOf(src), vol_inc_steps |-> NoneNum]

\* the second device's self._source_name_to_number: the constructor keeps the
\* dict it is given, so a dict given to both is one object behind both fields
PeerSourceNameToNumber ==
    IF peer.same THEN source_name_to_number ELSE peer.source_name_to_number

\* setup_platform has built the device and is calling update()
InitSetup ==
    /\ pc = "update" /\ tries = MAX_TRIES /\ telnet = FALSE
    /\ arg = 0 /\ cmd = <<>> /\ target_steps = 0 /\ ready = FALSE
    /\ op = "update" /\ calls = 0 /\ opened = 0 /\ closed = 0 /\ connected = FALSE
    /\ ret = "-" /\ poll = NoPoll /\ steps = 0 /\ answered = TRUE /\ wire = 0
    /\ attempts = 0 /\ volume0 = 0

RqOff == [pc |-> "off"]

\* a receiver of any source table, which may miss any reply, behind a
\* connection without faults
InitPoll ==
    /\ \E src \in ConfigSources : InitDevice(src) /\ InitPeer(src, FALSE)
    /\ fakevolumeset = FALSE
    /\ InitSetup
    /\ devVol = 92 /\ devStep = 2 /\ devSources \in DevTables
    /\ devPower = PWR \o <<"0">> /\ devMute = MUT \o <<"0">> /\ devActive \in ActiveCodes
    /\ devQuiet = Prefixes /\ devBroadcast = FALSE /\ netFaults = {}
    /\ rq = RqOff

\* a receiver that never misses a reply, behind a connection that may be
\* refused and may break once open
InitConnect ==
    /\ InitDevice(<<<<CD, Zfill2(4)>>>>) /\ InitPeer(<<<<CD, Zfill2(4)>>>>, FALSE)
    /\ fakevolumeset \in BOOLEAN
    /\ InitSetup
    /\ devVol = 92 /\ devStep = 2 /\ devSources = (4 :> CD) @@ (5 :> TV)
    /\ devPower = PWR \o <<"0">> /\ devMute = MUT \o <<"1">> /\ devActive = Zfill2(4)
    /\ devQuiet = {} /\ devBroadcast = FALSE /\ netFaults = {"refuse", "break"}
    /\ rq = RqOff

\* a receiver of any volume and step, which may miss a volume reply, behind a
\* connection without faults
InitVolume ==
    /\ InitDevice(<<<<CD, Zfill2(4)>>>>) /\ InitPeer(<<<<CD, Zfill2(4)>>>>, FALSE)
    /\ fakevolumeset \in BOOLEAN
    /\ InitSetup
    /\ devVol \in DevVols0 /\ devStep \in DevSteps /\ devSources = (4 :> CD) @@ (5 :> TV)
    /\ devPower = PWR \o <<"0">> /\ devMute = MUT \o <<"1">> /\ devActive = Zfill2(4)
    /\ devQuiet = {VOL} /\ devBroadcast = FALSE /\ netFaults = {}
    /\ rq = RqOff

\* ------------------------------------------------- entering and returning
\* a public method entered with one try too many
EnterSixTries(name, start) ==
    /\ pc = "idle" /\ ready /\ calls < MaxOps
    /\ calls' = calls + 1
    /\ op' = name /\ pc' = start /\ tries' = MAX_TRIES + 1
    /\ opened' = 0 /\ closed' = 0 /\ connected' = FALSE
    /\ ret' = "-" /\ steps' = 0 /\ answered' = TRUE /\ wire' = 0
    /\ attempts' = 0 /\ volume0' = volume
    /\ UNCHANGED <<telnet, target_steps, ready, poll>>

\* a public method is entered
Enter(name, start) ==
    /\ pc = "idle" /\ ready /\ calls < MaxOps
    /\ calls' = calls + 1
    /\ op' = name /\ pc' = start /\ tries' = MAX_TRIES
    /\ opened' = 0 /\ closed' = 0 /\ connected' = FALSE
    /\ ret' = "-" /\ steps' = 0 /\ answered' = TRUE /\ wire' = 0
    /\ attempts' = 0 /\ volume0' = volume
    /\ UNCHANGED <<telnet, target_steps, ready, poll>>

\* the running method returns r; its locals are gone (arg keeps the volume
\* that was asked for)
Leave(r) ==
    /\ ret' = r /\ pc' = "idle"
    /\ tries' = 0 /\ telnet' = FALSE /\ cmd' = <<>> /\ target_steps' = 0
    /\ UNCHANGED arg

\* ------------------------------------------------------------------ update
CallUpdate ==
    /\ Enter("update", "update")
    /\ arg' = 0
    /\ UNCHANGED <<cmd, deviceVars, envVars>>

\* one turn of the connect loop
UpdateTry ==
    /\ pc = "update" /\ tries > 0
    /\ tries' = tries - 1
    /\ attempts' = attempts + 1
    /\ \E ok \in ConnectOutcomes :
         IF ok
         THEN /\ telnet' = TRUE /\ opened' = opened + 1 /\ connected' = TRUE
              /\ pc' = "update_check"
         ELSE /\ pc' = IF tries' > 0 THEN "update" ELSE "update_check"
              /\ UNCHANGED <<telnet, opened, connected>>
    /\ UNCHANGED <<deviceVars, envVars, arg, cmd, target_steps, ready,
                   op, calls, closed, ret, poll, steps, answered, wire, volume0>>

\* the test that follows the connect loop
UpdateGaveUp == tries = 0

\* update returns False; in setup_platform that raises PlatformNotReady
UpdateFail ==
    /\ pc = "update_check" /\ UpdateGaveUp
    /\ ret' = "False"
    /\ pc' = IF ready THEN "idle" ELSE "not_ready"
    /\ tries' = 0 /\ telnet' = FALSE /\ arg' = 0 /\ cmd' = <<>> /\ target_steps' = 0
    /\ UNCHANGED <<deviceVars, envVars, ready,
                   op, calls, opened, closed, connected, poll, steps, answered, wire,
                   attempts, volume0>>

UpdateFrame ==
    UNCHANGED <<fakevolumeset, vol_inc_steps, tries, telnet, arg, cmd, target_steps,
                ready, envVars, op, calls, opened, closed, connected, ret, steps,
                answered, wire, attempts, volume0>>

\* self._pwstate after the ?P query returned pw
NewPower(old, pw) == IF pw # None THEN pw ELSE old

UpdatePower ==
    /\ pc = "update_check" /\ ~UpdateGaveUp
    /\ \E lines \in Delivery(devPower) :
         LET pw == Request(lines, PWR)
         IN /\ pwstate' = NewPower(pwstate, pw)
            /\ poll' = [NoPoll EXCEPT !.ran = TRUE, !.old = pwstate, !.pw = pw,
                                      !.had = poll.had \/ poll.did,
                                      !.found = poll.found \/ DOMAIN poll.disc # {}]
    /\ pc' = "update_volume"
    /\ UNCHANGED <<volume, muted, selected_source, source_name_to_number,
                   source_number_to_name>>
    /\ UpdateFrame

\* a volume that stays as it was when the reply is missing
NewVolumeStale(volume_str) ==
    IF volume_str # None THEN ParseInt(From(volume_str, 3)) * Grain ELSE volume

\* self._volume after the ?V query returned volume_str
NewVolume(volume_str) ==
    IF volume_str # None THEN ParseInt(From(volume_str, 3)) * Grain ELSE NoneNum

UpdateVolume ==
    /\ pc = "update_volume"
    /\ \E lines \in VolDelivery(devVol, devVol) :
         LET volume_str == Request(lines, VOL)
         IN /\ volume' = NewVolume(volume_str)
            /\ poll' = [poll EXCEPT !.vs = volume_str]
    /\ pc' = "update_mute"
    /\ UNCHANGED <<pwstate, muted, selected_source, source_name_to_number,
                   source_number_to_name>>
    /\ UpdateFrame

\* self._muted after the ?M query returned muted_value
NewMuted(muted_value) ==
    IF muted_value # None
    THEN (IF muted_value = MUT \o <<"0">> THEN "True" ELSE "False")
    ELSE "None"

UpdateMute ==
    /\ pc = "update_mute"
    /\ \E lines \in Delivery(devMute) :
         LET muted_value == Request(lines, MUT)
         IN /\ muted' = NewMuted(muted_value)
            /\ poll' = [poll EXCEPT !.mv = muted_value]
    /\ pc' = "update_sources"
    /\ UNCHANGED <<pwstate, volume, selected_source, source_name_to_number,
                   source_number_to_name>>
    /\ UpdateFrame

\* discovery on every poll
NeedDiscoveryAlways(n2n) == TRUE

\* "if not self._source_name_to_number"
NeedDiscovery(n2n) == DOMAIN n2n = {}

\* a name cut one character early
RegisterFromFive(d, i, result) ==
    IF result = None THEN d
    ELSE [n2n |-> Put(d.n2n, From(result, 5), Zfill2(i)),
          num2n |-> Put(d.num2n, Zfill2(i), From(result, 5))]

\* one turn of the discovery loop: slot i, whose query returned result
Register(d, i, result) ==
    IF result = None THEN d
    ELSE [n2n |-> Put(d.n2n, From(result, 6), Zfill2(i)),
          num2n |-> Put(d.num2n, Zfill2(i), From(result, 6))]

RECURSIVE DiscoverRange(_, _, _, _)
\* the dicts after the loop has done slots lo .. hi-1, in this order, from the
\* dicts d; results[i] is what the query of slot i returned, for the slots
\* that returned a line.  The turns are taken half by half, the first half
\* evaluated (by the comparison) before the second starts, which keeps the
\* evaluation shallow.
DiscoverRange(d, results, lo, hi) ==
    IF hi <= lo THEN d
    ELSE IF hi = lo + 1 THEN Register(d, lo, Get(results, lo))
    ELSE LET mid == (lo + hi) \div 2
             first == DiscoverRange(d, results, lo, mid)
         IN IF first = d THEN DiscoverRange(d, results, mid, hi)
            ELSE DiscoverRange(first, results, mid, hi)

\* the dicts after the loop has done slots 0 .. n-1
Discover(d, results, n) == DiscoverRange(d, results, 0, n)

\* the ?RGB replies one discovery pass may get: each slot of the receiver's
\* table gets no reply, its own, or (arriving late) the one of another slot
DiscoveryReplies ==
    [DOMAIN devSources -> DOMAIN devSources \cup {MAX_SOURCE_NUMBERS}]

UpdateSources ==
    /\ pc = "update_sources"
    /\ IF NeedDiscovery(source_name_to_number)
       THEN \E g \in DiscoveryReplies :
              LET got == {i \in DOMAIN g : g[i] # MAX_SOURCE_NUMBERS}
                  results == [i \in got |->
                                Request(<<RgbLine(g[i], devSources[g[i]]) \o CRLF>>, RGB)]
                  d == Discover([n2n |-> source_name_to_number,
                                 num2n |-> source_number_to_name],
                                results, MAX_SOURCE_NUMBERS)
              IN /\ source_name_to_number' = d.n2n
                 /\ source_number_to_name' = d.num2n
                 /\ poll' = [poll EXCEPT !.rgb = MAX_SOURCE_NUMBERS, !.did = TRUE,
                                         !.disc = results]
       ELSE UNCHANGED <<source_name_to_number, source_number_to_name, poll>>
    /\ pc' = "update_source"
    /\ UNCHANGED <<pwstate, volume, muted, selected_source>>
    /\ UpdateFrame

\* self._selected_source after the ?F query returned source_number
NewSource(num2n, source_number) ==
    IF source_number # None THEN Get(num2n, From(source_number, 2)) ELSE None

\* the ?F query, then telnet.close() and return True
UpdateSource ==
    /\ pc = "update_source"
    /\ \E lines \in Delivery(FnLine(devActive)) :
         LET source_number == Request(lines, FN)
         IN /\ selected_source' = NewSource(source_number_to_name, source_number)
            /\ poll' = [poll EXCEPT !.fs = source_number]
    /\ closed' = closed + 1
    /\ Leave("True")
    /\ ready' = TRUE
    /\ UNCHANGED <<pwstate, volume, muted, source_name_to_number, source_number_to_name,
                   fakevolumeset, vol_inc_steps, envVars, op, calls, opened, connected,
                   steps, answered, wire, attempts, volume0>>

\* ---------------------------------------------------------- telnet_command
SourceNames == {CD, TV}

\* f"{x}" for a string or None
Format(x) == IF x = None THEN <<"N", "o", "n", "e">> ELSE x

\* round(volume * MAX_VOLUME) for volume = t / (MAX_VOLUME * Grain): the nearest
\* code; halfway between two codes the float product decides, so either
RoundCodes(t) ==
    LET q == t \div Grain
        r == t % Grain
    IN IF 2 * r < Grain THEN {q}
       ELSE IF 2 * r > Grain THEN {q + 1}
       ELSE {q, q + 1}

\* turn_on, turn_off, mute_volume(True), mute_volume(False)
CallPowerMute ==
    /\ \E c \in {PO, PF, MO, MF} : cmd' = c
    /\ Enter("command", "command")
    /\ arg' = 0
    /\ UNCHANGED <<deviceVars, envVars>>

\* volume_up, volume_down that move the cached volume along
CallVolumeStepOptimistic ==
    /\ \E c \in {VU, VD} :
         /\ cmd' = c
         /\ volume' = IF volume = NoneNum THEN volume
                       ELSE Grain * DevVolAfter(VolCode(volume), 1, c)
    /\ Enter("command", "command")
    /\ arg' = 0
    /\ UNCHANGED <<pwstate, muted, selected_source, source_name_to_number,
                   source_number_to_name, fakevolumeset, vol_inc_steps, envVars>>

\* volume_up, volume_down
CallVolumeStep ==
    /\ \E c \in {VU, VD} : cmd' = c
    /\ Enter("command", "command")
    /\ arg' = 0
    /\ UNCHANGED <<deviceVars, envVars>>

CallSelectSource ==
    /\ \E source \in SourceNames :
         cmd' = Format(Get(source_name_to_number, source)) \o FN
    /\ Enter("select_source", "command")
    /\ arg' = 0
    /\ UNCHANGED <<deviceVars, envVars>>

\* one turn of the loop of telnet_command: connect, write, drain, close
CommandTry ==
    /\ pc = "command" /\ tries > 0
    /\ attempts' = attempts + 1
    /\ \E outcome \in CommandOutcomes :
         /\ opened' = IF outcome = "refused" THEN opened ELSE opened + 1
         /\ connected' = (connected \/ outcome # "refused")
         /\ wire' = IF outcome \in {"drain_error", "done"} THEN wire + 1 ELSE wire
         /\ IF outcome \in {"drain_error", "done"} THEN Receive(cmd) ELSE UNCHANGED envVars
         /\ closed' = IF outcome = "done" THEN closed + 1 ELSE closed
         /\ IF outcome = "done"
            THEN Leave("None")
            ELSE /\ tries' = tries - 1
                 /\ telnet' = (telnet \/ outcome # "refused")
                 /\ UNCHANGED <<pc, arg, cmd, target_steps, ret>>
    /\ UNCHANGED <<deviceVars, ready, op, calls, poll, steps, answered, volume0>>

\* the loop of telnet_command ran out of tries
CommandGiveUp ==
    /\ pc = "command" /\ tries = 0
    /\ Leave("None")
    /\ UNCHANGED <<deviceVars, envVars, ready,
                   op, calls, opened, closed, connected, poll, steps, answered, wire,
                   attempts, volume0>>

\* -------------------------------------------------------- set_volume_level
StepCap == MAX_VOLUME + 1

CallSetVolume ==
    /\ \E t \in Targets :
         IF fakevolumeset
         THEN /\ arg' = t /\ cmd' = <<>>
              /\ Enter("set_volume", "stepped")
         ELSE /\ arg' = t
              /\ \E code \in RoundCodes(t) : cmd' = Fmt03(code) \o VL
              /\ Enter("set_volume", "command")
    /\ UNCHANGED <<deviceVars, envVars>>

\* round(volume * MAX_VOLUME) in the place of int(volume * MAX_VOLUME)
TargetStepsRounded(t) == (2 * t + Grain) \div (2 * Grain)

\* int(volume * MAX_VOLUME)
TargetSteps(t) == t \div Grain

\* "VU" if (volume > self._volume) else "VD"
Direction(t, v) == IF t > v THEN VU ELSE VD

\* one turn of the retry loop, up to the test of self._vol_inc_steps: connect,
\* compute target_steps and cmd; comparing with a volume of None raises TypeError
SteppedTry ==
    /\ pc = "stepped" /\ tries > 0
    /\ tries' = tries - 1
    /\ attempts' = attempts + 1
    /\ \E ok \in ConnectOutcomes :
         IF ~ok
         THEN UNCHANGED <<pc, telnet, arg, cmd, target_steps, ret, opened, connected>>
         ELSE /\ opened' = opened + 1 /\ connected' = TRUE
              /\ IF volume = NoneNum
                 THEN /\ ret' = "TypeError" /\ pc' = "idle"
                      /\ telnet' = FALSE /\ cmd' = <<>> /\ target_steps' = 0
                      /\ UNCHANGED arg
                 ELSE /\ telnet' = TRUE
                      /\ target_steps' = TargetSteps(arg)
                      /\ cmd' = Direction(arg, volume)
                      /\ pc' = IF vol_inc_steps = NoneNum THEN "probe" ELSE "loop"
                      /\ UNCHANGED <<arg, ret>>
    /\ UNCHANGED <<deviceVars, envVars, ready, op, calls, closed, poll, steps, answered, wire,
                   volume0>>

\* the retry loop ran out of tries
SteppedGiveUp ==
    /\ pc = "stepped" /\ tries = 0
    /\ Leave("None")
    /\ UNCHANGED <<deviceVars, envVars, ready,
                   op, calls, opened, closed, connected, poll, steps, answered, wire,
                   attempts, volume0>>

\* vol2 - vol1, the sign kept
IncStepsSigned(volume_str1, volume_str2) ==
    ParseInt(From(volume_str2, 3)) - ParseInt(From(volume_str1, 3))

\* abs(vol2 - vol1)
IncSteps(volume_str1, volume_str2) ==
    Abs(ParseInt(From(volume_str2, 3)) - ParseInt(From(volume_str1, 3)))

\* a probe that snaps the cached volume to the target when a reply is missing
SteppedProbeSnaps ==
    /\ pc = "probe"
    /\ \E w1 \in WriteOutcomes, w2 \in WriteOutcomes :
         LET v1 == IF w1 THEN DevVolAfter(devVol, devStep, VU) ELSE devVol
             v2 == IF w2 THEN DevVolAfter(v1, devStep, VD) ELSE v1
         IN \E l1 \in VolDelivery(devVol, v1), l2 \in VolDelivery(v1, v2) :
              LET volume_str1 == TelnetRequest(l1, VOL, w1).result
                  volume_str2 == TelnetRequest(l2, VOL, w2).result
              IN /\ devVol' = v2
                 /\ IF volume_str1 # None /\ volume_str2 # None
                    THEN /\ vol_inc_steps' = IncSteps(volume_str1, volume_str2)
                         /\ pc' = "loop"
                         /\ UNCHANGED <<answered, volume>>
                    ELSE /\ pc' = "stepped"
                         /\ answered' = FALSE
                         /\ volume' = target_steps * Grain
                         /\ UNCHANGED vol_inc_steps
    /\ UNCHANGED <<pwstate, muted, selected_source, source_name_to_number,
                   source_number_to_name, fakevolumeset, tries, telnet, arg, cmd,
                   target_steps, ready, devPower, devMute, devActive, fixedVars,
                   op, calls, opened, closed, connected, ret, poll, steps, wire,
                   attempts, volume0>>

\* the probe: one VU and one VD request; without both replies the turn is over
SteppedProbe ==
    /\ pc = "probe"
    /\ \E w1 \in WriteOutcomes, w2 \in WriteOutcomes :
         LET v1 == IF w1 THEN DevVolAfter(devVol, devStep, VU) ELSE devVol
             v2 == IF w2 THEN DevVolAfter(v1, devStep, VD) ELSE v1
         IN \E l1 \in VolDelivery(devVol, v1), l2 \in VolDelivery(v1, v2) :
              LET volume_str1 == TelnetRequest(l1, VOL, w1).result
                  volume_str2 == TelnetRequest(l2, VOL, w2).result
              IN /\ devVol' = v2
                 /\ IF volume_str1 # None /\ volume_str2 # None
                    THEN /\ vol_inc_steps' = IncSteps(volume_str1, volume_str2)
                         /\ pc' = "loop"
                         /\ UNCHANGED answered
                    ELSE /\ pc' = "stepped"
                         /\ answered' = FALSE
                         /\ UNCHANGED vol_inc_steps
    /\ UNCHANGED <<pwstate, volume, muted, selected_source, source_name_to_number,
                   source_number_to_name, fakevolumeset, tries, telnet, arg, cmd,
                   target_steps, ready, devPower, devMute, devActive, fixedVars,
                   op, calls, opened, closed, connected, ret, poll, steps, wire,
                   attempts, volume0>>

\* the guard of the convergence loop
MustStep == Abs(target_steps - VolCode(volume)) >= vol_inc_steps

\* self._volume = target_steps / MAX_VOLUME
Snapped(ts) == ts * Grain

\* after the convergence loop: snap, close, break, return
SteppedEnd ==
    /\ volume' = Snapped(target_steps)
    /\ closed' = closed + 1
    /\ Leave("None")

\* one turn of the convergence loop; a missing reply ends the loop
SteppedStep ==
    /\ pc = "loop" /\ MustStep
    /\ steps' = IF steps < StepCap THEN steps + 1 ELSE steps
    /\ \E w \in WriteOutcomes :
         LET v == IF w THEN DevVolAfter(devVol, devStep, cmd) ELSE devVol
         IN \E lines \in VolDelivery(devVol, v) :
              LET volume_str == TelnetRequest(lines, VOL, w).result
              IN /\ devVol' = v
                 /\ IF volume_str # None
                    THEN /\ volume' = NewVolume(volume_str)
                         /\ UNCHANGED <<pc, tries, telnet, arg, cmd, target_steps,
                                        ret, closed, answered>>
                    ELSE /\ answered' = FALSE
                         /\ SteppedEnd
    /\ UNCHANGED <<pwstate, muted, selected_source, source_name_to_number,
                   source_number_to_name, fakevolumeset, vol_inc_steps, ready,
                   devPower, devMute, devActive, fixedVars,
                   op, calls, opened, connected, poll, wire, attempts, volume0>>

\* the convergence loop ends by its guard
SteppedDone ==
    /\ pc = "loop" /\ ~MustStep
    /\ SteppedEnd
    /\ UNCHANGED <<pwstate, muted, selected_source, source_name_to_number,
                   source_number_to_name, fakevolumeset, vol_inc_steps, ready,
                   envVars, op, calls, opened, connected, poll, steps, answered, wire,
                   attempts, volume0>>

\* ------------------------------------------------- telnet_request, alone
\* the raw lines a read may return; <<>> is a read that timed out
RequestLines ==
    { <<>>, E04 \o CRLF, VolLine(92) \o CRLF, <<" ">> \o VolLine(7) \o CRLF,
      PWR \o <<"0">> \o CRLF }

RECURSIVE Streams(_)
\* the sequences of at most n raw lines
Streams(n) ==
    IF n = 0 THEN {<<>>}
    ELSE LET shorter == Streams(n - 1)
         IN shorter \cup {Append(st, l) : st \in {x \in shorter : Len(x) = n - 1},
                                          l \in RequestLines}

\* a call telnet_request(telnet, command, expected_prefix) is about to run
InitRequest ==
    /\ InitDevice(<<>>) /\ InitPeer(<<>>, FALSE)
    /\ fakevolumeset = FALSE
    /\ InitSetup
    /\ devVol = 92 /\ devStep = 2 /\ devSources = EmptyDict
    /\ devPower = PWR \o <<"0">> /\ devMute = MUT \o <<"1">> /\ devActive = Zfill2(4)
    /\ devQuiet = {} /\ devBroadcast = FALSE /\ netFaults = {}
    /\ \E st \in Streams(MaxLines), prefix \in {VOL, PWR}, w \in BOOLEAN :
         rq = [pc |-> "call", lines |-> st, expected_prefix |-> prefix, writeOk |-> w,
               out |-> [result |-> None, reads |-> 0, writes |-> 0]]

\* the call runs
RequestCall ==
    /\ rq.pc = "call"
    /\ rq' = [rq EXCEPT !.pc = "done",
                        !.out = TelnetRequest(rq.lines, rq.expected_prefix, rq.writeOk)]
    /\ UNCHANGED <<deviceVars, opVars, devVol, devPower, devMute, devActive,
                   devStep, devSources, devQuiet, devBroadcast, netFaults, peer, histVars>>

NextRequest == RequestCall

SpecRequest == InitRequest /\ [][NextRequest]_vars

\* ------------------------------------------- two devices, one polled
\* what can be seen through the second device: its source dicts and step size
PeerView ==
    [source_name_to_number |-> PeerSourceNameToNumber,
     source_number_to_name |-> peer.source_number_to_name,
     vol_inc_steps |-> peer.vol_inc_steps]

\* two devices built from one sources option, given to both as the same dict
\* or as two equal dicts; a receiver of any source table, which may miss any
\* reply, behind a connection without faults
InitShared ==
    /\ \E src \in ConfigSources, same \in BOOLEAN : InitDevice(src) /\ InitPeer(src, same)
    /\ fakevolumeset = FALSE
    /\ InitSetup
    /\ devVol = 92 /\ devStep = 2 /\ devSources \in DevTables
    /\ devPower = PWR \o <<"0">> /\ devMute = MUT \o <<"0">> /\ devActive = Zfill2(4)
    /\ devQuiet = Prefixes /\ devBroadcast = FALSE /\ netFaults = {}
    /\ rq = RqOff

\* the poll cycle of the first device
NextShared ==
    \/ CallUpdate \/ UpdateTry
    \/ UpdatePower \/ UpdateVolume \/ UpdateMute \/ UpdateSources \/ UpdateSource

SpecShared == InitShared /\ [][NextShared]_vars

\* ------------------------------------------------------ the specifications
\* the poll cycle and the stepped volume set: a receiver that may miss a volume
\* reply, behind a connection that may be refused
InitProbe ==
    /\ InitDevice(<<<<CD, Zfill2(4)>>>>) /\ InitPeer(<<<<CD, Zfill2(4)>>>>, FALSE)
    /\ fakevolumeset = TRUE
    /\ InitSetup
    /\ devVol = 92 /\ devStep = 2 /\ devSources = (4 :> CD) @@ (5 :> TV)
    /\ devPower = PWR \o <<"0">> /\ devMute = MUT \o <<"1">> /\ devActive = Zfill2(4)
    /\ devQuiet = {VOL} /\ devBroadcast = FALSE /\ netFaults = {"refuse"}
    /\ rq = RqOff

\* the poll cycle and the stepped volume set: a receiver that answers every
\* request and also announces its volume on its own, behind a connection
\* without faults
InitBroadcast ==
    /\ InitDevice(<<<<CD, Zfill2(4)>>>>) /\ InitPeer(<<<<CD, Zfill2(4)>>>>, FALSE)
    /\ fakevolumeset = TRUE
    /\ InitSetup
    /\ devVol \in DevVols0 /\ devStep \in DevSteps /\ devSources = (4 :> CD) @@ (5 :> TV)
    /\ devPower = PWR \o <<"0">> /\ devMute = MUT \o <<"1">> /\ devActive = Zfill2(4)
    /\ devQuiet = {} /\ devBroadcast = TRUE /\ netFaults = {}
    /\ rq = RqOff

NextBroadcast ==
    \/ CallUpdate \/ UpdateTry
    \/ UpdatePower \/ UpdateVolume \/ UpdateMute \/ UpdateSources \/ UpdateSource
    \/ CallSetVolume
    \/ SteppedTry \/ SteppedProbe \/ SteppedStep \/ SteppedDone

SpecBroadcast == InitBroadcast /\ [][NextBroadcast]_vars

NextProbe ==
    \/ CallUpdate \/ UpdateTry \/ UpdateFail
    \/ UpdatePower \/ UpdateVolume \/ UpdateMute \/ UpdateSources \/ UpdateSource
    \/ CallSetVolume
    \/ SteppedTry \/ SteppedGiveUp \/ SteppedProbe \/ SteppedStep \/ SteppedDone

SpecProbe == InitProbe /\ [][NextProbe]_vars

\* the poll cycle and source selection, over a connection without faults
NextPoll ==
    \/ CallUpdate \/ UpdateTry
    \/ UpdatePower \/ UpdateVolume \/ UpdateMute \/ UpdateSources \/ UpdateSource
    \/ CallSelectSource \/ CommandTry

SpecPoll == InitPoll /\ [][NextPoll]_vars

\* the poll cycle and the volume operations, over a connection without faults
NextVolume ==
    \/ CallUpdate \/ UpdateTry
    \/ UpdatePower \/ UpdateVolume \/ UpdateMute \/ UpdateSources \/ UpdateSource
    \/ CallVolumeStep \/ CallSetVolume \/ CommandTry
    \/ SteppedTry \/ SteppedGiveUp \/ SteppedProbe \/ SteppedStep \/ SteppedDone

SpecVolume == InitVolume /\ [][NextVolume]_vars

\* every operation, over a connection that may be refused or break
NextConnect ==
    \/ CallUpdate \/ UpdateTry \/ UpdateFail
    \/ UpdatePower \/ UpdateVolume \/ UpdateMute \/ UpdateSources \/ UpdateSource
    \/ CallPowerMute \/ CallVolumeStep \/ CallSelectSource \/ CallSetVolume
    \/ CommandTry \/ CommandGiveUp
    \/ SteppedTry \/ SteppedGiveUp \/ SteppedProbe \/ SteppedStep \/ SteppedDone

SpecConnect == InitConnect /\ [][NextConnect]_vars

\* ------------------------------------------------------------- the claims
\* a public operation has returned or raised
Returned == pc \in {"idle", "not_ready"} /\ ret # "-"

\* the least n with n * b >= a
CeilDiv(a, b) == (a + b - 1) \div b

\* C1: update() returns True exactly when one of its connect attempts
\* succeeded, the fifth included; it returns False only when none did.
C1_UpdateTrueIffConnected ==
    (Returned /\ op = "update") => (ret = "True" <=> connected)

\* C2: when a public operation has returned, every connection it opened has
\* been closed.
C2_NoConnectionLeftOpen ==
    Returned => closed = opened

\* C3: no public operation raises, whatever replies the polls before it
\* missed.
C3_NoOperationRaises ==
    Returned => ret \in {"True", "False", "None"}

\* C4: while the receiver has answered every VU / VD of a stepped set, the
\* convergence loop of that call has issued no more than ceil(185 / s) step
\* commands, s being the receiver's step.
C4_StepBound ==
    (op = "set_volume" /\ fakevolumeset /\ answered)
        => steps <= CeilDiv(MAX_VOLUME, devStep)

\* a stepped set has left its convergence loop and returned
SteppedReturned ==
    Returned /\ op = "set_volume" /\ fakevolumeset /\ ret = "None" /\ closed = 1

C6_DiscoveryOnce ==
    (poll.ran /\ poll.had) => poll.rgb = 0

\* C6, amended: a poll that follows a poll whose discovery got at least one
\* reply sends no ?RGB query (a discovery that found nothing is run again).
C6_DiscoveryOnceFound ==
    (poll.ran /\ poll.found) => poll.rgb = 0

\* C6: a later poll has completed after a discovery that registered a source.
C6_Witness ==
    /\ Returned /\ op = "update" /\ ret = "True" /\ calls > 0
    /\ poll.found /\ poll.rgb = 0 /\ ~poll.did

\* C7: codeToName is the exact inverse of nameToCode.
C7_CatalogBijection ==
    /\ Cardinality(DOMAIN source_name_to_number) = Cardinality(DOMAIN source_number_to_name)
    /\ \A n \in DOMAIN source_name_to_number :
         Get(source_number_to_name, source_name_to_number[n]) = n
    /\ \A c \in DOMAIN source_number_to_name :
         Get(source_name_to_number, source_number_to_name[c]) = c

\* C8: after a discovery pass, the slots in the catalog are exactly the slots
\* whose ?RGB query returned a line (which starts with RGB), each under the
\* line without its first 6 characters; and every name in the catalog is the
\* name of such a slot.
C8_DiscoveryRegistersAnswers ==
    poll.did =>
        /\ DOMAIN source_number_to_name = {Zfill2(i) : i \in DOMAIN poll.disc}
        /\ \A i \in DOMAIN poll.disc :
             /\ i \in 0..(MAX_SOURCE_NUMBERS - 1)
             /\ SubSeq(poll.disc[i], 1, 3) = RGB
             /\ source_number_to_name[Zfill2(i)]
                  = SubSeq(poll.disc[i], 7, Len(poll.disc[i]))
        /\ \A n \in DOMAIN source_name_to_number :
             \E i \in DOMAIN poll.disc :
               /\ source_name_to_number[n] = Zfill2(i)
               /\ n = SubSeq(poll.disc[i], 7, Len(poll.disc[i]))

\* C8: a discovery pass in which one of the receiver's two slots answered.
C8_Witness ==
    /\ poll.did /\ Returned
    /\ Cardinality(DOMAIN devSources) = 2
    /\ Cardinality(DOMAIN poll.disc) = 1
    /\ Cardinality(DOMAIN source_number_to_name) = 1

\* the reads of a call that find the expected prefix
Matching(lines, prefix) ==
    {i \in 1..Len(lines) : i <= 3 /\ StartsWith(Strip(lines[i]), prefix)}

\* C9: telnet_request writes the command once, reads at most 3 lines and
\* returns the first of them that starts with expected_prefix; it returns
\* None when none of the 3 does.
C9_FirstOfThreeReads ==
    rq.pc = "done" =>
        LET m == Matching(rq.lines, rq.expected_prefix)
        IN /\ rq.out.writes = 1
           /\ rq.out.reads <= 3
           /\ IF m = {} \/ ~rq.writeOk
              THEN rq.out.result = None
              ELSE \E i \in m :
                     /\ \A j \in m : i <= j
                     /\ rq.out.reads = i
                     /\ rq.out.result = Strip(rq.lines[i])

\* C9: two unrelated lines, then the reply, which is returned.
C9_Witness ==
    /\ rq.pc = "done" /\ rq.writeOk /\ Len(rq.lines) >= 3
    /\ Matching(rq.lines, rq.expected_prefix) = {3}
    /\ Len(rq.lines[1]) > 0 /\ Len(rq.lines[2]) > 0
    /\ rq.out.result = VolLine(92) /\ rq.out.reads = 3

\* C10: after a poll that opened a connection, a missing power reply has left
\* the power state as it was, and a missing volume, mute or source reply has
\* left None in its field; so has a source code that codeToName lacks.
C10_MissingReplies ==
    (Returned /\ op = "update" /\ ret = "True") =>
        /\ poll.pw = None => pwstate = poll.old
        /\ poll.vs = None => volume = NoneNum
        /\ poll.mv = None => muted = "None"
        /\ poll.fs = None => selected_source = None
        /\ (poll.fs # None /\ SubSeq(poll.fs, 3, Len(poll.fs)) \notin DOMAIN source_number_to_name)
             => selected_source = None

\* C10: a later poll got no power and no volume reply: the power state is
\* the one an earlier poll read, the volume is None.
C10_Witness ==
    /\ Returned /\ op = "update" /\ ret = "True" /\ calls > 0
    /\ poll.pw = None /\ pwstate = PWR \o <<"0">>
    /\ poll.vs = None /\ volume = NoneNum
    /\ poll.mv = None /\ poll.fs = None

\* C11: no operation makes more than MAX_TRIES connect attempts, and one whose
\* every attempt failed made exactly MAX_TRIES of them, sent nothing, and
\* returned: update False, every other operation None.
C11_FiveAttempts ==
    /\ attempts <= MAX_TRIES
    /\ (Returned /\ ~connected) =>
         /\ attempts = MAX_TRIES
         /\ opened = 0 /\ wire = 0 /\ steps = 0
         /\ ret = IF op = "update" THEN "False" ELSE "None"

C11_Witness ==
    /\ Returned /\ ~connected /\ attempts = MAX_TRIES
    /\ op = "command" /\ calls > 0 /\ ret = "None" /\ wire = 0

\* C12: only update and the stepped set_volume_level change the device object:
\* no step of turn_on, turn_off, mute_volume, volume_up, volume_down,
\* select_source or the direct set_volume_level changes the power state, the
\* volume, the mute flag, the selected source, the two source dicts or the
\* step size, whatever becomes of the connection.
C12_CommandsLeaveState ==
    [][(op' \in {"command", "select_source"} \/ (op' = "set_volume" /\ ~fakevolumeset'))
         => UNCHANGED deviceVars]_vars

C12_Witness ==
    /\ Returned /\ op = "command" /\ ret = "None" /\ wire = 1 /\ attempts > 1
    /\ devPower = PWR \o <<"2">> /\ pwstate = PWR \o <<"0">>

\* C13: every command select_source writes is two decimal digits followed by
\* FN, the digits being the code the name has in the name-to-number dict;
\* a name the dict does not hold puts no other text on the wire.
C13_WellFormedSelect ==
    [][(op = "select_source" /\ wire' > wire)
         => /\ Len(cmd) = 4
            /\ IsDigits(SubSeq(cmd, 1, 2))
            /\ From(cmd, 2) = FN
            /\ \E source \in DOMAIN source_name_to_number :
                 source_name_to_number[source] = SubSeq(cmd, 1, 2)]_vars

\* C14: no operation on one device changes what a second device shows: the
\* second device's source dicts and step size stay as they are through every
\* step of the first, also when both were built from the same sources dict.
C14_PeerUntouched == [][PeerView' = PeerView]_vars

\* the line an answered step command of the convergence loop returns
StepReply == VolLine(DevVolAfter(devVol, devStep, cmd))

\* C15: the convergence loop of a stepped set_volume_level always ends: in no
\* reachable state of the loop in which a step is due does an answered step
\* leave both the receiver's volume and the cached volume as they are (from
\* such a state the loop repeats the same step for ever).
C15_LoopMakesProgress ==
    (op = "set_volume" /\ pc = "loop" /\ MustStep)
      => \/ DevVolAfter(devVol, devStep, cmd) # devVol
         \/ NewVolume(StepReply) # volume

\* the stepped set_volume_level is running
InStepped == op = "set_volume" /\ fakevolumeset /\ pc \in {"stepped", "probe", "loop"}

\* C16: a probe of the stepped set_volume_level that misses a reply ends the
\* attempt and not the call: no step of the convergence loop is sent, the
\* step size stays unknown, the cached volume stays as it was and the retry
\* loop goes on; attempts that failed to connect and attempts that failed to
\* probe are counted by one counter of MAX_TRIES, and the call that used all
\* of them returns None with the cached volume it was entered with.
C16_ProbeFailureRetries ==
    [][/\ (pc = "probe" /\ pc' # "loop")
          => /\ pc' = "stepped" /\ tries' = tries /\ ret' = "-"
             /\ vol_inc_steps' = NoneNum /\ volume' = volume
             /\ steps' = 0 /\ devVol' \in {devVol, Up(devVol, devStep), Down(devVol, devStep)}
       /\ InStepped' => attempts' + tries' = MAX_TRIES
       /\ (InStepped /\ pc = "stepped" /\ tries = 0)
          => /\ pc' = "idle" /\ ret' = "None" /\ attempts' = MAX_TRIES
             /\ volume' = volume0 /\ UNCHANGED <<vol_inc_steps, steps, devVol>>
      ]_vars

C16_Witness ==
    /\ Returned /\ op = "set_volume" /\ fakevolumeset /\ ret = "None"
    /\ attempts = MAX_TRIES /\ ~answered /\ opened \in 1..(MAX_TRIES - 1)
    /\ vol_inc_steps = NoneNum /\ steps = 0 /\ volume = volume0 /\ volume # NoneNum

\* C17: the step size is probed once: it changes only in a probe of the
\* stepped set_volume_level whose two requests both returned a VOL line, it is
\* then the distance between the two volume codes the receiver answered, and
\* once it is known no step changes it and no operation probes again.
C17_ProbedOnce ==
    [][/\ vol_inc_steps # NoneNum => (vol_inc_steps' = vol_inc_steps /\ pc' # "probe")
       /\ (pc = "probe" /\ pc' = "loop") => vol_inc_steps' # NoneNum
       /\ vol_inc_steps' # vol_inc_steps
          => /\ op = "set_volume" /\ pc = "probe" /\ vol_inc_steps = NoneNum
             /\ vol_inc_steps' = Abs(Up(devVol, devStep) - devVol')
             /\ devVol' = Down(Up(devVol, devStep), devStep)
      ]_vars

C17_Witness ==
    /\ Returned /\ op = "set_volume" /\ fakevolumeset /\ calls = 2 /\ ret = "None"
    /\ steps > 0 /\ answered /\ vol_inc_steps = devStep
    /\ poll.vs # None /\ volume0 # NewVolume(poll.vs)

\* C18: a step size that is known is at least 1, whatever VOL lines the two
\* requests of the probe were answered with.
C18_StepSizePositive == vol_inc_steps # NoneNum => vol_inc_steps >= 1

\* C19: an answered step of the convergence loop never takes the receiver
\* farther from the target code than it was before the step.
C19_StepsApproachTarget ==
    [][(op = "set_volume" /\ pc = "loop" /\ pc' = "loop")
         => Abs(target_steps - devVol') <= Abs(target_steps - devVol)]_vars

\* C20: one call of a fire-and-forget command writes its command to the
\* receiver at most once, whatever fails after the write.
C20_WrittenOnce ==
    (op \in {"command", "select_source"} \/ (op = "set_volume" /\ ~fakevolumeset))
      => wire <= 1

=============================================================================
